---- MODULE Spec2Model ----
(***************************************************************************)
(* Model of storage::secondary::RedisStorage (RedisStorage.cpp): the       *)
(* lazily connected Redis client with its connect/auth helpers and the     *)
(* get/put/remove operations.  The hiredis library and the server behind   *)
(* it are the environment: each library call's outcome is chosen           *)
(* nondeterministically among the outcomes the library can report.         *)
(***************************************************************************)
EXTENDS Integers, Sequences, FiniteSets, TLC

\* ------------------------------------------------------------------ bounds
NumDigests == 2
MaxLen == 1
\* the lifetime tallies of library calls stop counting here
MaxTally == 3

Digests == 1..NumDigests
\* bytes: the NUL byte and one other byte
Bytes == {0, 1}
\* std::string values: binary-safe byte sequences, byte 0 included
Values == UNION {[1..n -> Bytes] : n \in 0..MaxLen}

\* nonstd::optional<T>: a sequence holding at most one element
None == <<>>
Some(v) == <<v>>
Optional(S) == {None} \cup {Some(v) : v \in S}

\* ------------------------------------------------- hiredis / file constants
REDIS_OK == 0
REDIS_ERR == -1
REDIS_ERR_IO == 1
REDIS_ERR_TIMEOUT == 6
DEFAULT_PORT == 6379
MIN_PORT == 1
MAX_PORT == 65535

\* ------------------------------------------------------------ C-level data
\* A NUL-terminated read of a byte buffer (what "%s" and std::string(const
\* char*) do): the bytes before the first 0.
RECURSIVE CStr(_)
CStr(s) ==
  IF s = <<>> \/ Head(s) = 0 THEN <<>> ELSE <<Head(s)>> \o CStr(Tail(s))

\* A counted read of a byte buffer (what "%b" with (data, size) and
\* std::string(const char*, size_t) do): the first n bytes.
Counted(s, n) == SubSeq(s, 1, n)

\* long long (64 bit two's complement) as four 16-bit limbs, most
\* significant first.
Limb == 2^16
LL(a, b, c, d) == <<a, b, c, d>>
LLZero == LL(0, 0, 0, 0)
LLOne == LL(0, 0, 0, 1)
LLTwo == LL(0, 0, 0, 2)
LLMinusOne == LL(Limb - 1, Limb - 1, Limb - 1, Limb - 1)
LLTwo32 == LL(0, 1, 0, 0)
\* x > 0 for a long long
LLPositive(x) == x[1] < Limb \div 2 /\ x # LLZero
\* conversion long long -> int (32 bit): the low 32 bits, two's complement
ToInt(x) ==
  IF x[3] >= Limb \div 2 THEN (x[3] - Limb) * Limb + x[4]
  ELSE x[3] * Limb + x[4]

\* redisReply: type, str/len, integer.  Type "NULL" stands for a null
\* reply pointer.
Reply(t, s, i) == [type |-> t, str |-> s, len |-> Len(s), integer |-> i]
NullReply == Reply("NULL", <<>>, LLZero)
ErrorReply == Reply("ERROR", <<>>, LLZero)
StatusReply == Reply("STATUS", <<>>, LLZero)
NilReply == Reply("NIL", <<>>, LLZero)
StringReply(v) == Reply("STRING", v, LLZero)
IntegerReply(i) == Reply("INTEGER", <<>>, i)

\* redisContext*: null, or a handle with its err field and connection type
NullCtx == [null |-> TRUE, err |-> 0, conn_type |-> "none"]
Ctx(e, t) == [null |-> FALSE, err |-> e, conn_type |-> t]

\* ----------------------------------------------------------- configuration
\* Url pieces as the code reads them: host(), port(), path().  A port is a
\* string of characters.
PortStrings ==
  { <<>>, <<"6", "3", "8", "0">>, <<"7", "0", "0", "0", "0">>, <<"x">> }
Endpoints ==
  { [host |-> "", port |-> <<>>, path |-> ""],
    [host |-> "", port |-> <<>>, path |-> "/s"],
    [host |-> "h", port |-> <<>>, path |-> "/s"] }
  \cup { [host |-> "h", port |-> p, path |-> ""] : p \in PortStrings }
Usernames == Optional({"user"})
Passwords == Optional({"pw"})

VARIABLES
  m_url,            \* the endpoint
  m_username,       \* optional username attribute
  m_password,       \* optional password attribute
  have_timeout,     \* build: hiredis defines REDIS_ERR_TIMEOUT (>= 1.0.0)
  m_context,        \* the connection handle
  m_connected,
  m_invalid,
  store,            \* the server's keys: key string -> optional value
  link,             \* the transport under the handle is up
  last,             \* the most recent call: arguments, state before it,
                    \* library calls made, result
  made,             \* library calls made since construction: connection
                    \* attempts, in-place reconnects, AUTH commands
  destroyed         \* the destructor has run: the object's life is over

vars == << m_url, m_username, m_password, have_timeout, m_context,
           m_connected, m_invalid, store, link, last, made,
           destroyed >>


\* ------------------------------------------------------------- environment
\* Connection-level error codes a handle can carry after a connection
\* attempt; REDIS_ERR_TIMEOUT exists only in hiredis >= 1.0.0.
ConnErrs == {REDIS_ERR_IO} \cup (IF have_timeout THEN {REDIS_ERR_TIMEOUT} ELSE {})
\* What redisConnectWithTimeout / redisConnectUnixWithTimeout can return
ConnOutcomes ==
  { [null |-> TRUE, err |-> 0] }
    \cup { [null |-> FALSE, err |-> e] : e \in {0} \cup ConnErrs }
\* What the AUTH command can be answered with
AuthReplies == {StatusReply, NullReply, ErrorReply}

\* How a command's round trip can end: "none" = the server executes it and
\* its reply arrives; "lost" = no reply, not executed; "late" = executed,
\* no reply; the others = not executed, a reply of the named shape.
GetFaults == {"none", "lost", "error", "status", "int_two"}
ExistsFaults ==
  {"none", "lost", "error", "status", "int_neg", "int_two", "int_big"}
SetFaults == {"none", "lost", "late", "error", "nil"}
DelFaults == {"none", "lost", "late", "error", "status", "int_neg", "int_two"}

JunkReply(f) ==
  CASE f = "error" -> ErrorReply
    [] f = "status" -> StatusReply
    [] f = "nil" -> NilReply
    [] f = "int_neg" -> IntegerReply(LLMinusOne)
    [] f = "int_two" -> IntegerReply(LLTwo)
    [] f = "int_big" -> IntegerReply(LLTwo32)
    [] OTHER -> NullReply

\* The server's answer to a data command on keys st
ServerReply(cmd, key, st) ==
  CASE cmd = "GET" ->
         IF st[key] = None THEN NilReply ELSE StringReply(st[key][1])
    [] cmd = "EXISTS" ->
         IF st[key] = None THEN IntegerReply(LLZero) ELSE IntegerReply(LLOne)
    [] cmd = "SET" -> StatusReply
    [] cmd = "DEL" ->
         IF st[key] = None THEN IntegerReply(LLZero) ELSE IntegerReply(LLOne)

\* The server's keys after executing a data command
ServerStore(cmd, key, data, st) ==
  CASE cmd = "SET" -> [st EXCEPT ![key] = Some(data)]
    [] cmd = "DEL" -> [st EXCEPT ![key] = None]
    [] OTHER -> st

\* redisCommand(m_context, ...) for a data command: the reply the client
\* gets and the server's keys afterwards.  With the transport down no
\* command reaches the server and no reply comes back.
redisCommand(cmd, key, data, f, st, up) ==
  LET fault == IF up THEN f ELSE "lost" IN
  [ reply |-> IF fault = "none" THEN ServerReply(cmd, key, st)
              ELSE JunkReply(fault),
    store |-> IF fault \in {"none", "late"} THEN ServerStore(cmd, key, data, st)
              ELSE st,
    fault |-> fault ]

\* One library call as recorded in last.io
Call(name, key, data, reply, fault) ==
  [call |-> name, key |-> key, data |-> data, reply |-> reply, fault |-> fault]
LibCall(name) == Call(name, <<>>, <<>>, NullReply, "none")

\* ------------------------------------------------------------------ helpers
\* Util::parse_unsigned(value, min, max, description): the number a decimal
\* string denotes when it is one within [min, max]; throws otherwise.
DigitChars == <<"0", "1", "2", "3", "4", "5", "6", "7", "8", "9">>
IsDigit(c) == \E i \in 1..10 : DigitChars[i] = c
DigitValue(c) == (CHOOSE i \in 1..10 : DigitChars[i] = c) - 1
RECURSIVE DecimalValue(_, _)
DecimalValue(s, acc) ==
  IF s = <<>> THEN acc ELSE DecimalValue(Tail(s), acc * 10 + DigitValue(Head(s)))
parse_unsigned(s, min, max) ==
  IF s # <<>> /\ (\A i \in 1..Len(s) : IsDigit(s[i]))
     /\ DecimalValue(s, 0) >= min /\ DecimalValue(s, 0) <= max
  THEN [thrown |-> FALSE, value |-> DecimalValue(s, 0)]
  ELSE [thrown |-> TRUE, value |-> 0]

\* RedisStorage::get_key_string: prefix, ":", the digest's text
m_prefix == "ccache"
get_key_string(d) == <<m_prefix, ":", d>>
KeyStrings == {get_key_string(d) : d \in Digests}

is_error(err) == err # REDIS_OK
\* is_timeout as compiled without REDIS_ERR_TIMEOUT
is_timeout_Never(err) == FALSE
is_timeout(err) == IF have_timeout THEN err = REDIS_ERR_TIMEOUT ELSE FALSE

\* -------------------------------------------------------- connect and auth
\* auth() that does not look at the reply to AUTH
auth_Unchecked(ar) ==
  IF m_password # None
  THEN LET args == IF m_username # None
                   THEN <<m_username[1], m_password[1]>>
                   ELSE <<m_password[1]>>
       IN [ invalid |-> m_invalid,
            ret |-> IF m_invalid THEN REDIS_ERR ELSE REDIS_OK,
            io |-> <<Call("AUTH", args, <<>>, ar, "none")>> ]
  ELSE [invalid |-> m_invalid, ret |-> REDIS_OK, io |-> <<>>]

\* RedisStorage::auth(), called with the handle just connected: the flags
\* it leaves, its return value and the command it sent.  ar is the reply
\* AUTH gets.
auth(ar) ==
  IF m_password # None
  THEN LET args == IF m_username # None
                   THEN <<m_username[1], m_password[1]>>
                   ELSE <<m_password[1]>>
           invalid == m_invalid \/ ar.type = "NULL" \/ ar.type = "ERROR"
       IN [ invalid |-> invalid,
            ret |-> IF invalid THEN REDIS_ERR ELSE REDIS_OK,
            io |-> <<Call("AUTH", args, <<>>, ar, "none")>> ]
  ELSE [invalid |-> m_invalid, ret |-> REDIS_OK, io |-> <<>>]

\* EndpointKind without the final else branch: an endpoint without a host
\* is taken to be a socket path
EndpointKind_NoElse(url) ==
  IF url.host # "" THEN "tcp" ELSE "unix"

\* connect(), lines 119-136: which connection the endpoint asks for
EndpointKind(url) ==
  IF url.host # "" THEN "tcp"
  ELSE IF url.path # "" THEN "unix"
  ELSE "invalid"

\* AttemptStatus without the err check: only a null handle is a failure
AttemptStatus_NoErrCheck(co) ==
  IF co.null THEN "null" ELSE "ok"

\* connect(), lines 138-146: how the handle a connection attempt returned
\* is classified
AttemptStatus(co) ==
  IF co.null THEN "null"
  ELSE IF co.err # 0 THEN "error"
  ELSE "ok"

\* The fresh-connection part of connect() (lines 114-163), entered with a
\* null handle; io0 is what the call did before.
FreshConnect(io0, co, ar) ==
  LET kind == EndpointKind(m_url)
      p == IF m_url.port = <<>> THEN [thrown |-> FALSE, value |-> DEFAULT_PORT]
           ELSE parse_unsigned(m_url.port, MIN_PORT, MAX_PORT)
      attempt == IF kind = "tcp" THEN "redisConnectWithTimeout"
                 ELSE "redisConnectUnixWithTimeout"
      io1 == io0 \o <<LibCall(attempt)>>
      status == AttemptStatus(co)
      a == auth(ar)
  IN
  IF kind = "tcp" /\ p.thrown
  THEN [ connected |-> FALSE, invalid |-> FALSE, context |-> NullCtx,
         ret |-> REDIS_OK, io |-> io0, thrown |-> TRUE, link |-> link ]
  ELSE IF kind = "invalid"
  THEN [ connected |-> FALSE, invalid |-> TRUE, context |-> NullCtx,
         ret |-> REDIS_ERR, io |-> io0, thrown |-> FALSE, link |-> link ]
  ELSE IF status = "null"
  THEN [ connected |-> FALSE, invalid |-> TRUE, context |-> NullCtx,
         ret |-> REDIS_ERR, io |-> io1, thrown |-> FALSE, link |-> link ]
  ELSE IF status = "error"
  THEN [ connected |-> FALSE, invalid |-> TRUE, context |-> Ctx(co.err, kind),
         ret |-> co.err, io |-> io1, thrown |-> FALSE, link |-> link ]
  ELSE [ connected |-> TRUE, invalid |-> a.invalid,
         context |-> [null |-> co.null, err |-> co.err, conn_type |-> kind],
         ret |-> a.ret,
         io |-> io1 \o <<LibCall("redisSetTimeout")>> \o a.io,
         thrown |-> FALSE, link |-> TRUE ]

\* connect() that authenticates again on every call made while connected
connect_Reauth(rc, co, ar) ==
  IF m_connected
  THEN LET a == auth(ar) IN
       [ connected |-> m_connected, invalid |-> a.invalid,
         context |-> m_context, ret |-> a.ret, io |-> a.io,
         thrown |-> FALSE, link |-> link ]
  ELSE IF m_invalid
  THEN [ connected |-> m_connected, invalid |-> m_invalid,
         context |-> m_context, ret |-> REDIS_ERR, io |-> <<>>,
         thrown |-> FALSE, link |-> link ]
  ELSE FreshConnect(<<>>, co, ar)

\* connect() whose connected fast path resets the invalid flag
connect_ResetInvalid(rc, co, ar) ==
  IF m_connected
  THEN [ connected |-> m_connected, invalid |-> FALSE,
         context |-> m_context, ret |-> REDIS_OK, io |-> <<>>,
         thrown |-> FALSE, link |-> link ]
  ELSE IF m_invalid
  THEN [ connected |-> m_connected, invalid |-> m_invalid,
         context |-> m_context, ret |-> REDIS_ERR, io |-> <<>>,
         thrown |-> FALSE, link |-> link ]
  ELSE FreshConnect(<<>>, co, ar)

\* connect() without the early return on the invalid flag
connect_NoInvalidCheck(rc, co, ar) ==
  IF m_connected
  THEN [ connected |-> m_connected, invalid |-> m_invalid,
         context |-> m_context, ret |-> REDIS_OK, io |-> <<>>,
         thrown |-> FALSE, link |-> link ]
  ELSE IF ~m_context.null
  THEN IF rc
       THEN [ connected |-> TRUE, invalid |-> m_invalid,
              context |-> Ctx(0, m_context.conn_type), ret |-> REDIS_OK,
              io |-> <<LibCall("redisReconnect")>>,
              thrown |-> FALSE, link |-> TRUE ]
       ELSE FreshConnect(<<LibCall("redisReconnect"), LibCall("redisFree")>>,
                         co, ar)
  ELSE FreshConnect(<<>>, co, ar)

\* RedisStorage::connect(): the members it leaves, its return value, the
\* library calls it made and whether an exception left it.  rc: whether
\* redisReconnect succeeds; co: what the connection attempt returns; ar:
\* the reply to AUTH.
connect(rc, co, ar) ==
  IF m_connected
  THEN [ connected |-> m_connected, invalid |-> m_invalid,
         context |-> m_context, ret |-> REDIS_OK, io |-> <<>>,
         thrown |-> FALSE, link |-> link ]
  ELSE IF m_invalid
  THEN [ connected |-> m_connected, invalid |-> m_invalid,
         context |-> m_context, ret |-> REDIS_ERR, io |-> <<>>,
         thrown |-> FALSE, link |-> link ]
  ELSE IF ~m_context.null
  THEN IF rc
       THEN [ connected |-> TRUE, invalid |-> m_invalid,
              context |-> Ctx(0, m_context.conn_type), ret |-> REDIS_OK,
              io |-> <<LibCall("redisReconnect")>>,
              thrown |-> FALSE, link |-> TRUE ]
       ELSE FreshConnect(<<LibCall("redisReconnect"), LibCall("redisFree")>>,
                         co, ar)
  ELSE FreshConnect(<<>>, co, ar)

\* The result a call hands back when its connect step did not succeed
ConnectFailure(c) ==
  IF c.thrown THEN [tag |-> "thrown", val |-> <<>>]
  ELSE IF is_timeout(c.ret) THEN [tag |-> "timeout", val |-> <<>>]
  ELSE [tag |-> "error", val |-> <<>>]
ConnectFailed(c) == c.thrown \/ is_timeout(c.ret) \/ is_error(c.ret)

Result(t) == [tag |-> t, val |-> <<>>]
Found(v) == [tag |-> "found", val |-> v]

\* ------------------------------------------------------ reply classification
\* get_result without the nil branch: a nil reply is an error
get_result_NoNil(reply) ==
  IF reply.type = "STRING" THEN Found(Counted(reply.str, reply.len))
  ELSE Result("error")

\* get_result that takes every reply that is neither a string nor an error
\* for a missing key
get_result_OtherAbsent(reply) ==
  IF reply.type = "NULL" THEN Result("error")
  ELSE IF reply.type = "ERROR" THEN Result("error")
  ELSE IF reply.type = "STRING" THEN Found(Counted(reply.str, reply.len))
  ELSE Result("absent")

\* get(): lines 228-248
get_result(reply) ==
  IF reply.type = "NULL" THEN Result("error")
  ELSE IF reply.type = "ERROR" THEN Result("error")
  ELSE IF reply.type = "STRING" THEN Found(Counted(reply.str, reply.len))
  ELSE IF reply.type = "NIL" THEN Result("absent")
  ELSE Result("error")

\* exists_count that never reads the reply's integer
exists_count_Unread(reply) == 0

\* exists_count that fails closed: without an integer-typed reply the key
\* counts as existing
exists_count_FailClosed(reply) ==
  IF reply.type = "INTEGER" THEN ToInt(reply.integer) ELSE 1

\* put(): int count of lines 267-274
exists_count(reply) ==
  IF reply.type = "NULL" THEN 0
  ELSE IF reply.type = "ERROR" THEN 0
  ELSE IF reply.type = "INTEGER" THEN ToInt(reply.integer)
  ELSE 0

\* set_payload with the value formatted by "%s": it ends at the first NUL
set_payload_CStr(value) == CStr(value)

\* put(): the bytes the SET command carries ("%b" with value.data(),
\* value.size())
set_payload(value) == Counted(value, Len(value))

\* put(): lines 283-298
set_result(reply) ==
  IF reply.type = "NULL" THEN Result("error")
  ELSE IF reply.type = "ERROR" THEN Result("error")
  ELSE IF reply.type = "STATUS" THEN Result("true")
  ELSE Result("error")

\* remove_result that tests the integer with >= 0
remove_result_NonNegative(reply) ==
  IF reply.type = "NULL" THEN Result("error")
  ELSE IF reply.type = "ERROR" THEN Result("error")
  ELSE IF reply.type = "INTEGER"
       THEN IF LLPositive(reply.integer) \/ reply.integer = LLZero
            THEN Result("true")
            ELSE Result("false")
  ELSE Result("error")

\* remove(): lines 314-334
remove_result(reply) ==
  IF reply.type = "NULL" THEN Result("error")
  ELSE IF reply.type = "ERROR" THEN Result("error")
  ELSE IF reply.type = "INTEGER"
       THEN IF LLPositive(reply.integer) THEN Result("true")
            ELSE Result("false")
  ELSE Result("error")

\* ------------------------------------------------------------------ actions
NoCall ==
  [ op |-> "none", key |-> 0, value |-> <<>>, only_if_missing |-> FALSE,
    err |-> REDIS_OK, io |-> <<>>, result |-> Result("none") ]
Record(op, d, value, oim, c, io, result) ==
  [ op |-> op, key |-> d, value |-> value, only_if_missing |-> oim,
    err |-> c.ret, io |-> io, result |-> result ]

Config == << m_url, m_username, m_password, have_timeout >>

\* The tallies m after a connect() that made the library calls io
Tally(m, io) ==
  LET n(names) == Cardinality({i \in 1..Len(io) : io[i].call \in names})
      upto(k) == IF k > MaxTally THEN MaxTally ELSE k
  IN [ attempts |-> upto(m.attempts
                         + n({ "redisConnectWithTimeout",
                               "redisConnectUnixWithTimeout" })),
       reconnects |-> upto(m.reconnects + n({"redisReconnect"})),
       auths |-> upto(m.auths + n({"AUTH"})) ]

\* The members connect() leaves behind, in a call on a live object
AssignMembers(c) ==
  /\ ~destroyed
  /\ UNCHANGED destroyed
  /\ m_connected' = c.connected
  /\ m_invalid' = c.invalid
  /\ m_context' = c.context
  /\ link' = c.link
  /\ made' = Tally(made, c.io)

\* get() that clears the connected flag when its command got no reply
get_DropOnNoReply(d, rc, co, ar, f) ==
  LET c == connect(rc, co, ar)
      key_string == get_key_string(d)
      r == redisCommand("GET", key_string, <<>>, f, store, c.link)
  IN /\ IF ConnectFailed(c) \/ r.reply.type # "NULL"
        THEN AssignMembers(c)
        ELSE AssignMembers([c EXCEPT !.connected = FALSE])
     /\ IF ConnectFailed(c)
        THEN /\ store' = store
             /\ last' = Record("get", d, <<>>, FALSE, c, c.io, ConnectFailure(c))
        ELSE /\ store' = r.store
             /\ last' = Record("get", d, <<>>, FALSE, c,
                               c.io \o <<Call("GET", key_string, <<>>,
                                              r.reply, r.fault)>>,
                               get_result(r.reply))
     /\ UNCHANGED Config

\* RedisStorage::get(key)
get(d, rc, co, ar, f) ==
  LET c == connect(rc, co, ar)
      key_string == get_key_string(d)
      r == redisCommand("GET", key_string, <<>>, f, store, c.link)
  IN /\ AssignMembers(c)
     /\ IF ConnectFailed(c)
        THEN /\ store' = store
             /\ last' = Record("get", d, <<>>, FALSE, c, c.io, ConnectFailure(c))
        ELSE /\ store' = r.store
             /\ last' = Record("get", d, <<>>, FALSE, c,
                               c.io \o <<Call("GET", key_string, <<>>,
                                              r.reply, r.fault)>>,
                               get_result(r.reply))
     /\ UNCHANGED Config

\* RedisStorage::put(key, value, only_if_missing)
put(d, value, only_if_missing, rc, co, ar, fe, fs) ==
  LET c == connect(rc, co, ar)
      key_string == get_key_string(d)
      e == redisCommand("EXISTS", key_string, <<>>, fe, store, c.link)
      count == exists_count(e.reply)
      io1 == IF only_if_missing
             THEN c.io \o <<Call("EXISTS", key_string, <<>>, e.reply, e.fault)>>
             ELSE c.io
      w == redisCommand("SET", key_string, set_payload(value), fs,
                        IF only_if_missing THEN e.store ELSE store, c.link)
      stored == set_result(w.reply)
  IN /\ AssignMembers(c)
     /\ IF ConnectFailed(c)
        THEN /\ store' = store
             /\ last' = Record("put", d, value, only_if_missing, c, c.io,
                               ConnectFailure(c))
        ELSE IF only_if_missing /\ count > 0
        THEN /\ store' = e.store
             /\ last' = Record("put", d, value, only_if_missing, c, io1,
                               Result("false"))
        ELSE /\ store' = w.store
             /\ last' = Record("put", d, value, only_if_missing, c,
                               io1 \o <<Call("SET", key_string,
                                             set_payload(value),
                                             w.reply, w.fault)>>,
                               stored)
     /\ UNCHANGED Config

\* RedisStorage::remove(key)
remove(d, rc, co, ar, f) ==
  LET c == connect(rc, co, ar)
      key_string == get_key_string(d)
      r == redisCommand("DEL", key_string, <<>>, f, store, c.link)
  IN /\ AssignMembers(c)
     /\ IF ConnectFailed(c)
        THEN /\ store' = store
             /\ last' = Record("remove", d, <<>>, FALSE, c, c.io,
                               ConnectFailure(c))
        ELSE /\ store' = r.store
             /\ last' = Record("remove", d, <<>>, FALSE, c,
                               c.io \o <<Call("DEL", key_string, <<>>,
                                              r.reply, r.fault)>>,
                               remove_result(r.reply))
     /\ UNCHANGED Config

\* The transport under an established connection goes down (the peer or
\* the network closes it); the client is not told.
DropLink ==
  /\ ~destroyed
  /\ link
  /\ link' = FALSE
  /\ last' = NoCall
  /\ UNCHANGED << Config, m_context, m_connected, m_invalid, store, made,
                  destroyed >>

\* RedisStorage::~RedisStorage(): a non-null handle is freed, and with it
\* goes the transport under it; the handle is null afterwards.  No call
\* follows it.
Destroy ==
  /\ ~destroyed
  /\ destroyed' = TRUE
  /\ m_context' = NullCtx
  /\ link' = FALSE
  /\ last' = [NoCall EXCEPT
                !.op = "~RedisStorage",
                !.io = IF ~m_context.null THEN <<LibCall("redisFree")>>
                       ELSE <<>>]
  /\ UNCHANGED << Config, m_connected, m_invalid, store, made >>

\* ------------------------------------------------------------ specification
\* RedisStorage::RedisStorage: the members after construction, for every
\* endpoint and credential configuration, against a server with no keys.
Init ==
  /\ m_url \in Endpoints
  /\ m_username \in Usernames
  /\ m_password \in Passwords
  /\ have_timeout \in BOOLEAN
  /\ m_context = NullCtx
  /\ m_connected = FALSE
  /\ m_invalid = FALSE
  /\ store = [k \in KeyStrings |-> None]
  /\ link = FALSE
  /\ last = NoCall
  /\ made = [attempts |-> 0, reconnects |-> 0, auths |-> 0]
  /\ destroyed = FALSE

\* The outcomes to choose among for the library calls a call can make from
\* the current state (one fixed outcome for a call that cannot happen)
WillConnect == ~m_connected /\ ~m_invalid
ReconnectOutcomes == IF WillConnect /\ ~m_context.null THEN BOOLEAN ELSE {FALSE}
AttemptOutcomes ==
  IF WillConnect THEN ConnOutcomes ELSE {[null |-> FALSE, err |-> 0]}
AuthOutcomes ==
  IF WillConnect /\ m_password # None THEN AuthReplies ELSE {StatusReply}

\* The calls of the connection-lifecycle specification: one key, two values,
\* every configuration, every shape of reply.
ProbeDigests == {1}
ProbeValues == {<<0>>, <<1>>}

Next ==
  \/ \E d \in ProbeDigests, rc \in ReconnectOutcomes, co \in AttemptOutcomes,
        ar \in AuthOutcomes, f \in GetFaults :
       get(d, rc, co, ar, f)
  \/ \E d \in ProbeDigests, value \in ProbeValues, only_if_missing \in BOOLEAN,
        rc \in ReconnectOutcomes, co \in AttemptOutcomes, ar \in AuthOutcomes,
        fs \in SetFaults :
       \E fe \in IF only_if_missing THEN ExistsFaults ELSE {"none"} :
         put(d, value, only_if_missing, rc, co, ar, fe, fs)
  \/ \E d \in ProbeDigests, rc \in ReconnectOutcomes, co \in AttemptOutcomes,
        ar \in AuthOutcomes, f \in DelFaults :
       remove(d, rc, co, ar, f)
  \/ DropLink
  \/ Destroy

Spec == Init /\ [][Next]_vars

\* The data specification: one reachable endpoint without credentials,
\* every key and value, a server that answers or a reply that is lost.
InitData ==
  /\ Init
  /\ m_url = [host |-> "h", port |-> <<>>, path |-> ""]
  /\ m_username = None
  /\ m_password = None
  /\ have_timeout

DataFaults == {"none", "lost"}

NextData ==
  \/ \E d \in Digests, rc \in ReconnectOutcomes, co \in AttemptOutcomes,
        ar \in AuthOutcomes, f \in DataFaults :
       get(d, rc, co, ar, f)
  \/ \E d \in Digests, value \in Values, only_if_missing \in BOOLEAN,
        rc \in ReconnectOutcomes, co \in AttemptOutcomes, ar \in AuthOutcomes :
       \E fe \in IF only_if_missing THEN DataFaults ELSE {"none"} :
         put(d, value, only_if_missing, rc, co, ar, fe, "none")
  \/ \E d \in Digests, rc \in ReconnectOutcomes, co \in AttemptOutcomes,
        ar \in AuthOutcomes, f \in DataFaults :
       remove(d, rc, co, ar, f)
  \/ Destroy

SpecData == InitData /\ [][NextData]_vars

\* ------------------------------------------------------------------ claims
Calls == {"get", "put", "remove"}
ConnectCalls ==
  { "redisReconnect", "redisFree", "redisConnectWithTimeout",
    "redisConnectUnixWithTimeout", "redisSetTimeout" }
DataCommands == {"GET", "EXISTS", "SET", "DEL"}
Commands == {"AUTH"} \cup DataCommands
\* the library calls of a call record l that are among names
Sent(l, names) == {i \in 1..Len(l.io) : l.io[i].call \in names}
\* the AUTH command of a call record l was answered with no reply or with
\* an error-typed reply
AuthRejected(l) ==
  \E i \in Sent(l, {"AUTH"}) : l.io[i].reply.type \in {"NULL", "ERROR"}
\* the command named name of call record l was executed by the server and
\* its reply arrived
Answered(l, name) == \E i \in Sent(l, {name}) : l.io[i].fault = "none"
MalformedEndpoint == m_url.host = "" /\ m_url.path = ""

\* C1: a call made with the invalid flag set returns Error and makes no
\* library call at all (no connect, no reconnect, no command).
C1_InvalidFailsFast ==
  [][ (m_invalid /\ last'.op \in Calls)
        => (last'.result.tag = "error" /\ last'.io = <<>>) ]_vars

\* C2: the call whose connect had its AUTH rejected returns Error, and so
\* does the call that follows it.
C2_AuthRejectedStaysFailed ==
  /\ [](AuthRejected(last) => last.result.tag = "error")
  /\ [][ (AuthRejected(last) /\ last'.op \in Calls)
           => last'.result.tag = "error" ]_vars

\* C3: with neither host nor socket path every call ends with the generic
\* Error and makes no library call; after the first one the client is
\* invalid.
C3_MalformedEndpoint ==
  (MalformedEndpoint /\ last.op \in Calls)
    => (last.result.tag = "error" /\ last.io = <<>> /\ m_invalid
        /\ ~m_connected /\ m_context.null)
C3_Witness ==
  MalformedEndpoint /\ last.op = "remove" /\ m_invalid

\* C7: a call made while connected has a connect step that returns
\* success without any library call (no reconnect, no connection attempt,
\* no redisSetTimeout, no AUTH) and leaves the members as they were.
C7_IdempotentConnect ==
  [][ (m_connected /\ last'.op \in Calls)
        => /\ last'.err = REDIS_OK
           /\ Sent(last', ConnectCalls \cup {"AUTH"}) = {}
           /\ m_connected' /\ m_invalid' = m_invalid
           /\ m_context' = m_context ]_vars
\* two calls in a row on a connected client: the second one sent its data
\* command and nothing else
C7_Witness ==
  /\ m_connected /\ ~m_invalid /\ last.op = "get"
  /\ Len(last.io) = 1 /\ last.io[1].call = "GET"

\* C8: a call whose connect step returned the timeout code ends with
\* Timeout, one whose connect step returned any other failure ends with
\* the generic Error, and neither sends a data command.  (A call that an
\* exception left has no connect return value and is not covered here.)
C8_ConnectFailurePropagates ==
  (last.op \in Calls /\ last.result.tag # "thrown")
    => /\ last.err = REDIS_ERR_TIMEOUT
            => (last.result.tag = "timeout" /\ Sent(last, DataCommands) = {})
       /\ last.err \notin {REDIS_OK, REDIS_ERR_TIMEOUT}
            => (last.result.tag = "error" /\ Sent(last, DataCommands) = {})
C8_Witness ==
  /\ last.op = "put" /\ last.err = REDIS_ERR_TIMEOUT
  /\ last.result.tag = "timeout"

\* C9: once set, the invalid flag stays set across every step.
C9_InvalidMonotone == [][m_invalid => m_invalid']_vars
\* a call made after AUTH was rejected: the flag is still set after it
C9_Witness ==
  /\ m_invalid /\ m_connected /\ last.op \in Calls
  /\ Sent(last, {"AUTH"}) = {} /\ Sent(last, DataCommands) # {}

\* C10: on a live object the connected flag implies a non-null handle
\* whose connection attempt left no error, and every command a call sent
\* went through such a handle.
C10_NoUseBeforeConnect ==
  /\ (m_connected /\ ~destroyed) => (~m_context.null /\ m_context.err = 0)
  /\ Sent(last, Commands) # {}
       => (m_connected /\ ~m_context.null /\ m_context.err = 0)
C10_Witness ==
  /\ m_connected /\ ~m_context.null
  /\ Sent(last, {"AUTH"}) # {} /\ Sent(last, DataCommands) # {}

\* C4: round trip.  (1) After put(k, v, false) returned true the server
\* holds exactly v under k; (2) the value under a key changes only in a
\* call that sent SET or DEL for that key; (3) a get(k) whose GET the
\* server answers returns exactly the value held under k.  Together: with
\* no write or delete of k in between, the next get(k) on a working
\* connection returns exactly v.
RoundTripStored ==
  (last.op = "put" /\ ~last.only_if_missing /\ last.result.tag = "true")
    => store[get_key_string(last.key)] = Some(last.value)
RoundTripFrame ==
  \A k \in KeyStrings :
    store'[k] # store[k]
      => \E i \in Sent(last', {"SET", "DEL"}) : last'.io[i].key = k
RoundTripGet ==
  \A d \in Digests, v \in Values :
    (last'.op = "get" /\ last'.key = d /\ Answered(last', "GET")
     /\ store[get_key_string(d)] = Some(v))
      => last'.result = Found(v)
C4_RoundTrip ==
  []RoundTripStored /\ [][RoundTripFrame /\ RoundTripGet]_vars
\* a get returned a value holding a NUL byte while another key is stored
C4_Witness ==
  /\ last.op = "get" /\ last.result = Found(<<0>>)
  /\ \E k \in KeyStrings : k # get_key_string(last.key) /\ store[k] # None

\* C5 as stated: whatever the existence check is answered with, a
\* conditional put on a key the server holds returns false, sends no SET
\* and leaves the value in place.
C5_NeverOverwrites ==
  [][ (last'.op = "put" /\ last'.only_if_missing
       /\ Sent(last', {"EXISTS"}) # {}
       /\ store[get_key_string(last'.key)] # None)
        => /\ last'.result.tag = "false"
           /\ Sent(last', {"SET"}) = {}
           /\ store' = store ]_vars
\* C5 amended: when the existence check is answered with an integer-typed
\* reply whose value as an int is > 0, the conditional put on a key the
\* server holds returns false, sends no SET and leaves every value in place.
C5_NoOverwriteWhenReported ==
  [][ (last'.op = "put" /\ last'.only_if_missing
       /\ store[get_key_string(last'.key)] # None
       /\ \E i \in Sent(last', {"EXISTS"}) :
            /\ last'.io[i].reply.type = "INTEGER"
            /\ ToInt(last'.io[i].reply.integer) > 0)
        => /\ last'.result.tag = "false"
           /\ Sent(last', {"SET"}) = {}
           /\ store' = store ]_vars
\* a conditional put of another value was refused and the old value is
\* still there
C5_Witness ==
  /\ last.op = "put" /\ last.only_if_missing /\ last.result.tag = "false"
  /\ Answered(last, "EXISTS")
  /\ store[get_key_string(last.key)] # None
  /\ store[get_key_string(last.key)] # Some(last.value)

\* C6 as stated: on a connected client get of a key the server does not
\* hold returns absent and remove of it returns false, and the server's
\* keys stay as they are.
C6_MissingKeyNeverError ==
  [][ (m_connected /\ last'.op \in {"get", "remove"}
       /\ store[get_key_string(last'.key)] = None)
        => /\ last'.op = "get" => last'.result.tag = "absent"
           /\ last'.op = "remove" => last'.result.tag = "false"
           /\ store' = store ]_vars
\* C6 amended: get or remove of a key the server does not hold leaves the
\* server's keys as they are, and when the server's reply to the command
\* arrives get returns absent and remove returns false.
C6_MissingKeyWhenAnswered ==
  [][ (last'.op \in {"get", "remove"}
       /\ store[get_key_string(last'.key)] = None)
        => /\ Answered(last', "GET") => last'.result.tag = "absent"
           /\ Answered(last', "DEL") => last'.result.tag = "false"
           /\ store' = store ]_vars
\* a get found a key absent while the server holds another key
C6_Witness ==
  /\ last.op = "get" /\ last.result.tag = "absent" /\ Answered(last, "GET")
  /\ \E k \in KeyStrings : store[k] # None

\* C11: a call made on a connected client whose transport has gone down
\* makes a reconnect attempt (redisReconnect, or a fresh connection
\* attempt) and makes it before any data command it sends.
C11_DropDetected ==
  [][ (m_connected /\ ~link /\ last'.op \in Calls)
        => LET again == Sent(last', { "redisReconnect",
                                      "redisConnectWithTimeout",
                                      "redisConnectUnixWithTimeout" })
           IN /\ again # {}
              /\ \A i \in Sent(last', DataCommands) :
                   \E j \in again : j < i ]_vars

\* C12: every call ends by returning one of the result variants (a value,
\* absent, true, false, Timeout, Error); none is left by an exception.
ResultTags == {"found", "absent", "true", "false", "timeout", "error"}
C12_NoUncaughtFault ==
  last.op \in Calls => last.result.tag \in ResultTags

\* C13: after every step the connected and invalid flags are not both
\* set, and a set invalid flag stays set.
C13_ExactlyOneState ==
  [][ ~(m_connected' /\ m_invalid') /\ (m_invalid => m_invalid') ]_vars

\* C14: every AUTH command carries two arguments, a username and the
\* password, the username being the configured one or "default" when none
\* is configured.
C14_AuthCarriesUsername ==
  \A i \in Sent(last, {"AUTH"}) :
    /\ m_password # None
    /\ last.io[i].key
         = << IF m_username # None THEN m_username[1] ELSE "default",
              m_password[1] >>

\* C15: a call whose fresh connection attempt succeeded sends no AUTH and
\* has a successful connect step when no password is configured; with a
\* password it sends exactly one AUTH, before every data command it sends,
\* and when that AUTH is rejected it returns Error and sends no data
\* command.  A call that made no successful fresh connection sends no
\* AUTH, so a connection sees one AUTH in all.
FreshlyConnected(l) ==
  /\ Sent(l, {"redisConnectWithTimeout", "redisConnectUnixWithTimeout"}) # {}
  /\ Sent(l, {"redisSetTimeout"}) # {}
C15_AuthOrdering ==
  last.op \in Calls
    => /\ m_password = None
            => /\ Sent(last, {"AUTH"}) = {}
               /\ FreshlyConnected(last) => last.err = REDIS_OK
       /\ m_password # None
            => Cardinality(Sent(last, {"AUTH"}))
                 = IF FreshlyConnected(last) THEN 1 ELSE 0
       /\ \A i \in Sent(last, {"AUTH"}), j \in Sent(last, DataCommands) : i < j
       /\ AuthRejected(last)
            => (last.result.tag = "error" /\ Sent(last, DataCommands) = {})
       /\ made.auths <= 1
\* a call connected, had its AUTH accepted and then sent its data command
C15_Witness ==
  /\ FreshlyConnected(last) /\ last.op = "put"
  /\ \E i \in Sent(last, {"AUTH"}) : last.io[i].reply.type = "STATUS"
  /\ Sent(last, {"SET"}) # {}

\* C16 as stated: remove returns true on an integer-typed reply > 0, false
\* on an integer-typed reply that is exactly 0, and Error on every other
\* reply to DEL, an integer-typed reply with a negative value included.
C16_NegativeIsError ==
  \A i \in Sent(last, {"DEL"}) :
    LET r == last.io[i].reply IN
    last.result.tag
      = IF r.type = "INTEGER" /\ LLPositive(r.integer) THEN "true"
        ELSE IF r.type = "INTEGER" /\ r.integer = LLZero THEN "false"
        ELSE "error"
\* C16 amended: remove returns true on an integer-typed reply > 0, false
\* on every other integer-typed reply (zero or negative), and Error on no
\* reply, an error-typed reply or a reply of any other type.
C16_RemoveClassification ==
  \A i \in Sent(last, {"DEL"}) :
    LET r == last.io[i].reply IN
    /\ last.op = "remove"
    /\ last.result.tag
         = IF r.type = "INTEGER" /\ LLPositive(r.integer) THEN "true"
           ELSE IF r.type = "INTEGER" THEN "false"
           ELSE "error"
\* a remove whose DEL was answered with the integer -1 returned false
C16_Witness ==
  /\ last.op = "remove" /\ last.result.tag = "false"
  /\ \E i \in Sent(last, {"DEL"}) :
       last.io[i].reply = IntegerReply(LLMinusOne)

\* C17: get returns the bytes of a string-typed reply, absent on a nil
\* reply and the generic Error on every other reply to GET (no reply,
\* error, status, integer); those never give Timeout or absent.
C17_GetClassification ==
  \A i \in Sent(last, {"GET"}) :
    LET r == last.io[i].reply IN
    /\ last.op = "get"
    /\ r.type = "STRING" => last.result = Found(SubSeq(r.str, 1, r.len))
    /\ r.type = "NIL" => last.result = Result("absent")
    /\ r.type \notin {"STRING", "NIL"} => last.result = Result("error")
\* a get whose GET was answered with an integer-typed reply returned Error
C17_Witness ==
  /\ last.op = "get" /\ last.result.tag = "error"
  /\ \E i \in Sent(last, {"GET"}) : last.io[i].reply.type = "INTEGER"

\* C18: EXISTS is sent only by a put with only_if_missing, and before its
\* SET; when EXISTS gets no reply, an error-typed reply or a reply that is
\* not integer-typed the put sends SET all the same and its result is
\* decided by the reply to SET alone: true on a status reply, Error
\* otherwise.
C18_FailOpenExists ==
  /\ \A i \in Sent(last, {"EXISTS"}) :
       /\ last.op = "put" /\ last.only_if_missing
       /\ \A j \in Sent(last, {"SET"}) : i < j
       /\ last.io[i].reply.type # "INTEGER"
            => /\ Cardinality(Sent(last, {"SET"})) = 1
               /\ \A j \in Sent(last, {"SET"}) :
                    last.result.tag
                      = IF last.io[j].reply.type = "STATUS" THEN "true"
                        ELSE "error"
  /\ (last.op = "put" /\ last.only_if_missing /\ Sent(last, {"SET"}) # {})
       => Sent(last, {"EXISTS"}) # {}
\* a conditional put whose EXISTS was answered with an error-typed reply
\* stored its value
C18_Witness ==
  /\ last.op = "put" /\ last.only_if_missing /\ last.result.tag = "true"
  /\ \E i \in Sent(last, {"EXISTS"}) : last.io[i].reply.type = "ERROR"
  /\ store[get_key_string(last.key)] = Some(last.value)

\* C19: since construction a client has made at most one connection
\* attempt, sent at most one AUTH and never called redisReconnect; once it
\* has made its attempt the connected or the invalid flag is set, and a
\* non-null handle on a client that is not connected means invalid.
PortParses ==
  m_url.host # "" /\ m_url.port # <<>>
    => ~parse_unsigned(m_url.port, MIN_PORT, MAX_PORT).thrown
C19_SingleAttempt ==
  /\ made.attempts <= 1 /\ made.auths <= 1 /\ made.reconnects = 0
  /\ last.op \in Calls => Sent(last, {"redisReconnect", "redisFree"}) = {}
  /\ made.attempts = 1 => (m_connected \/ m_invalid)
  /\ (~m_context.null /\ ~m_connected) => m_invalid
\* a call made after the one attempt failed and left a handle behind: it
\* made no library call
C19_Witness ==
  /\ PortParses /\ made.attempts = 1 /\ ~m_context.null /\ ~m_connected
  /\ last.op \in Calls /\ last.io = <<>>

\* C20: a call made while connected leaves the connected flag, the invalid
\* flag and the handle as they were, whatever its command was answered
\* with.
C20_CommandFrame ==
  [][ (m_connected /\ last'.op \in Calls)
        => << m_connected', m_invalid', m_context' >>
             = << m_connected, m_invalid, m_context >> ]_vars
\* a get on a connected client whose GET got no reply: the client is
\* still connected
C20_Witness ==
  /\ m_connected /\ ~m_invalid /\ ~m_context.null /\ last.op = "get"
  /\ Len(last.io) = 1 /\ last.io[1].reply.type = "NULL"
  /\ last.result.tag = "error"

====
